---------------------------- MODULE Spec2Model ----------------------------
(***************************************************************************)
(* Model of src/main.py: WorkflowSettings (configuration load and          *)
(* requirement validation) and WorkflowRunner (depth scheduling, dispatch, *)
(* consensus resolution).                                                  *)
(*                                                                         *)
(* JSON / Python values are written as tagged strings so that values of    *)
(* different Python types stay distinct and comparable:                    *)
(*   "absent"  the key is not in the mapping (dict.get gives None)         *)
(*   "null"    JSON null / Python None                                     *)
(*   "NaN"     pandas' float nan                                           *)
(*   "i:<n>"   an int, "s:<text>" a str, "b:true"/"b:false" a bool         *)
(***************************************************************************)
EXTENDS Naturals, Sequences, FiniteSets, TLC

VARIABLES
    input,              \* WorkflowSettings.input: the configuration document
    config,             \* WorkflowSettings.config: the requirement schema
    paths,              \* WorkflowSettings.paths: keys of the resolved paths map
    to_run,             \* WorkflowSettings.to_run (list, catalog order)
    to_integrate,       \* WorkflowSettings.to_integrate
    schema_loaded,      \* the schema document has been read (main.py:345)
    folder_made,        \* Path(output_folder).mkdir has happened (main.py:351)
    error,              \* the exception that ended construction or the run
    pc,                 \* position of the program
    running_depths,     \* run_and_integrate_per_depth: running_depths
    integration_depths, \* run_and_integrate_per_depth: integration_depths
    bucket,             \* index of current_depth in [1,2,3,4,"N/A"]
    running,            \* tools of the current bucket still to run
    integrating,        \* tools of the current bucket still to integrate
    active,             \* the dispatched operation that has not returned yet
    log,                \* history: begin/end of every dispatched operation
    graph,              \* WorkflowRunner.graph
    network_df,         \* WorkflowRunner.network_df
    written,            \* number of writes of the output artifact
    steps,              \* history: how often each step of the run has happened
    call                \* a single call of a pure method: arguments and result

vars == <<input, config, paths, to_run, to_integrate, schema_loaded, folder_made,
          error, pc, running_depths, integration_depths, bucket, running,
          integrating, active, log, graph, network_df, written, steps,
          call>>

settingsVars == <<input, config, paths, to_run, to_integrate, schema_loaded,
                  folder_made>>

runVars == <<running_depths, integration_depths, bucket, running, integrating,
             active, log, graph, network_df, written, steps>>

-----------------------------------------------------------------------------
(* Python values *)

\* bool(v): None, 0, "" and False are falsy; nan is truthy.
Truthy(v) == v \notin {"absent", "null", "i:0", "s:", "b:false"}

\* isinstance(v, str)
IsStr(v) == v \in {"s:", "s:N/A", "s:X", "s:Y", "s:Z"}

NoError == [exc |-> "none", tool |-> "", names |-> {}, at |-> ""]

Raise(exc, tool, names, at) ==
    [exc |-> exc, tool |-> tool, names |-> names, at |-> at]

-----------------------------------------------------------------------------
(* The catalog *)

available_tools == <<"mzmine", "ms2lda", "sirius", "toxtree", "classyfire", "matchms">>

available_integrations ==
    <<"mzmine", "ms2lda", "sirius", "toxtree", "classyfire", "matchms",
      "plastchemdb", "sirius_db">>

Range(s) == {s[i] : i \in DOMAIN s}

-----------------------------------------------------------------------------
(* The requirement schema: config[tool] is                                  *)
(*   [depth, running |-> [depth, requirements], integration |-> [...]]      *)
(* and a tool without an entry reads as the empty mapping.                  *)

NoReq == [paths |-> {}, settings |-> {}, optional_paths |-> <<>>,
          optional_settings |-> <<>>]

EmptyGoal == [depth |-> "absent", requirements |-> NoReq]

EmptyTool == [depth |-> "absent", running |-> EmptyGoal, integration |-> EmptyGoal]

\* self.config.get(tool, {})
ConfigGet(tool) == IF tool \in DOMAIN config THEN config[tool] ELSE EmptyTool

\* config.get(goal, {})
GoalGet(toolcfg, goal) ==
    IF goal = "running" THEN toolcfg.running ELSE toolcfg.integration

-----------------------------------------------------------------------------
(* WorkflowRunner.get_depths *)

DepthOrder == <<"i:1", "i:2", "i:3", "i:4", "s:N/A">>

\* the match statement: no case for any other value, the tool gets no entry
MatchDepth(depth) ==
    CASE depth \in {"s:1", "i:1", "b:true"} -> "i:1"
      [] depth \in {"s:2", "i:2"} -> "i:2"
      [] depth \in {"s:3", "i:3"} -> "i:3"
      [] depth \in {"s:4", "i:4"} -> "i:4"
      [] depth = "s:N/A" -> "s:N/A"
      [] OTHER -> "unmatched"

\* depth = goal_depth if goal_depth else config.get("depth","N/A")
RawDepth(tool, goal) ==
    LET toolcfg == ConfigGet(tool)
        goal_depth == GoalGet(toolcfg, goal).depth
    IN  IF Truthy(goal_depth) THEN goal_depth
        ELSE IF toolcfg.depth = "absent" THEN "s:N/A" ELSE toolcfg.depth

get_depths(tools, goal) ==
    [tool \in {t \in tools : MatchDepth(RawDepth(t, goal)) # "unmatched"} |->
        MatchDepth(RawDepth(tool, goal))]


-----------------------------------------------------------------------------
(* The configuration document: input is                                     *)
(*   [keys        the top-level keys present                                *)
(*    paths       the keys of input["paths"] as the user wrote them         *)
(*    flags_kind  "object" when run_tools / integrate_tools are mappings    *)
(*    run_tools, integrate_tools   tool -> flag value                       *)
(*    blocks      tool -> keys of the tool's parameter block]               *)

\* src.myworkflow.util.validate_dictkeys: every key of keys is in the mapping.
validate_dictkeys(mapping_keys, keys) == keys \subseteq mapping_keys

\* self.input[setting].get(tool)
FlagGet(flags, tool) == IF tool \in DOMAIN flags THEN flags[tool] ELSE "absent"

\* self.input.get(tool), as the key set validate_dictkeys looks into; a
\* document without the block has none of the keys.
BlockGet(self_input, tool) ==
    IF tool \in DOMAIN self_input.blocks THEN self_input.blocks[tool] ELSE {}

required_settings == {"paths", "run_tools", "integrate_tools"}

required_paths == {"base_output_folder", "internal_settings"}

\* faulty variant: the paths section is not looked into
validate_required_settings_TopOnly(settings) ==
    IF ~validate_dictkeys(settings.keys, required_settings)
    THEN Raise("Settingserror", "", required_settings, "required_settings")
    ELSE NoError

validate_required_settings(settings) ==
    IF ~validate_dictkeys(settings.keys, required_settings)
    THEN Raise("Settingserror", "", required_settings, "required_settings")
    ELSE IF ~validate_dictkeys(settings.paths, required_paths)
    THEN Raise("Settingserror", "", required_paths, "required_paths")
    ELSE NoError

\* faulty variant: any truthy flag selects the tool
select_used_tools_Truthy(self_input, available, setting) ==
    LET flags == IF setting = "run_tools" THEN self_input.run_tools
                 ELSE self_input.integrate_tools
    IN  SelectSeq(available, LAMBDA tool : Truthy(FlagGet(flags, tool)))

select_used_tools(self_input, available, setting) ==
    LET flags == IF setting = "run_tools" THEN self_input.run_tools
                 ELSE self_input.integrate_tools
    IN  SelectSeq(available, LAMBDA tool : FlagGet(flags, tool) = "s:True")

\* the paths set_tool_settings registers for one tool
RegisteredPaths(tool) ==
    CASE tool = "mzmine" -> {"input_mgf", "sirius_mgf", "quant_table"}
      [] tool = "sirius" -> {"canopus_output", "csi:fingerid_output",
                             "sirius_tool_output", "sirius_output"}
      [] tool = "sirius_db" -> {"canopus_db_output", "csi:fingerid_db_output",
                                "sirius_tool_db_output", "sirius_db_output"}
      [] tool = "matchms" -> {"base_network"}
      [] tool = "toxtree" -> {"toxtree_output"}
      [] tool = "classyfire" -> {"classyfire_output"}
      [] tool = "ms2lda" -> {"ms2lda_output", "ms2lda_results_db"}
      [] OTHER -> {}

\* faulty variant: the tools register no path
set_tool_settings_None(self_paths, tools) == self_paths

\* self.paths after set_tool_settings(tools)
set_tool_settings(self_paths, tools) ==
    self_paths \cup UNION {RegisteredPaths(tool) : tool \in tools}

get_tool_requirements(tool, goal) == GoalGet(ConfigGet(tool), goal).requirements

\* the first group of a list of groups that validate_dictkeys rejects, 0 if none
FirstBadGroup(mapping_keys, groups) ==
    LET bad == {i \in DOMAIN groups : ~validate_dictkeys(mapping_keys, groups[i])}
    IN  IF bad = {} THEN 0 ELSE CHOOSE i \in bad : \A j \in bad : i <= j

\* faulty variant: the tool's parameter block is not checked
validate_tool_requirements_PathsOnly(tool, requirements, self_paths, self_input) ==
    IF ~validate_dictkeys(self_paths, requirements.paths)
    THEN Raise("Settingserror", tool, requirements.paths, "paths")
    ELSE NoError

validate_tool_requirements(tool, requirements, self_paths, self_input) ==
    LET block == BlockGet(self_input, tool)
        badp == FirstBadGroup(self_paths, requirements.optional_paths)
        bads == FirstBadGroup(block, requirements.optional_settings)
    IN  IF ~validate_dictkeys(self_paths, requirements.paths)
        THEN Raise("Settingserror", tool, requirements.paths, "paths")
        ELSE IF ~validate_dictkeys(block, requirements.settings)
        THEN Raise("Settingserror", tool, requirements.settings, "settings")
        ELSE IF badp # 0
        THEN Raise("Settingserror", tool, requirements.optional_paths[badp],
                   "optional_paths")
        ELSE IF bads # 0
        THEN Raise("Settingserror", tool, requirements.optional_settings[bads],
                   "optional_settings")
        ELSE NoError

\* [<<tool, goal>>, ...]: the order in which __init__ checks requirements
Pairs(tools, goal) == [i \in DOMAIN tools |-> <<tools[i], goal>>]

\* faulty variants: a group of checks is left out
RequirementChecks_NoAllTools(run, integrate) ==
    Pairs(run, "running") \o Pairs(integrate, "integration")

RequirementChecks_RunOnly(run, integrate) ==
    Pairs(run, "running")
    \o <<<<"all_tools", "running">>, <<"all_tools", "integration">>>>

RequirementChecks(run, integrate) ==
    Pairs(run, "running") \o Pairs(integrate, "integration")
    \o <<<<"all_tools", "running">>, <<"all_tools", "integration">>>>

\* check_tool_requirements over the whole list: the first error raised
check_tool_requirements(checks, self_paths, self_input) ==
    LET res == [i \in DOMAIN checks |->
                  validate_tool_requirements(checks[i][1],
                      get_tool_requirements(checks[i][1], checks[i][2]),
                      self_paths, self_input)]
        bad == {i \in DOMAIN checks : res[i] # NoError}
    IN  IF bad = {} THEN NoError
        ELSE res[CHOOSE i \in bad : \A j \in bad : i <= j]

\* WorkflowSettings.__init__, as the state it leaves behind
WorkflowSettings_init(self_input) ==
    LET e1 == validate_required_settings(self_input)
        run == select_used_tools(self_input, available_tools, "run_tools")
        integrate == select_used_tools(self_input, available_integrations,
                                       "integrate_tools")
        resolved == set_tool_settings(self_input.paths, Range(run) \cup Range(integrate))
        e2 == check_tool_requirements(RequirementChecks(run, integrate),
                                      resolved, self_input)
        base == [error |-> NoError, schema_loaded |-> FALSE, folder_made |-> FALSE,
                 to_run |-> <<>>, to_integrate |-> <<>>, paths |-> self_input.paths]
    IN  IF e1 # NoError THEN [base EXCEPT !.error = e1]
        ELSE IF self_input.flags_kind # "object"
        THEN [base EXCEPT !.error = Raise("AttributeError", "", {}, "select_used_tools"),
                          !.schema_loaded = TRUE, !.folder_made = TRUE]
        ELSE [error |-> e2, schema_loaded |-> TRUE, folder_made |-> TRUE,
              to_run |-> run, to_integrate |-> integrate, paths |-> resolved]

-----------------------------------------------------------------------------
(* WorkflowRunner: scheduling and dispatch *)

NoOp == [op |-> "none", tool |-> ""]

Event(op, tool, ev) == [op |-> op, tool |-> tool, ev |-> ev]

\* nx.Graph / pd.DataFrame, the classes __init__ stores, hold no data (init
\* FALSE); attrs are the tools whose output has been attached.
Unset == [init |-> FALSE, attrs |-> {}]

\* the three class levels of lines 128-129
ClassLevels == {"subclass", "class", "superclass"}

\* no graph read, no projection derived, no smiles file written, no class
\* consensus, no filter yet
NoSteps == [read_graphml |-> 0, network_to_edgelist_and_nodes_df |-> 0,
            create_smiles_csv_from_df |-> 0,
            get_consensus_class |-> 0, filter_component |-> 0]

\* faulty variant: the graph is read one bucket late
MakesGraph_Late(current_depth) == current_depth = "i:4"

\* if current_depth == 3
MakesGraph(current_depth) == current_depth = "i:3"

\* if current_depth == 4
MakesNetwork(current_depth) == current_depth = "i:4"

\* faulty variant: the loop stops before the "N/A" bucket
LastBucket_Early(b) == b >= 4

\* the loop over [1,2,3,4,"N/A"] has no iteration left
LastBucket(b) == b = Len(DepthOrder)

\* faulty variant: every selected tool is due in every bucket
DueTools_Every(depths, current_depth) == DOMAIN depths

\* {tool for tool,depth in depths.items() if depth==current_depth}
DueTools(depths, current_depth) ==
    {tool \in DOMAIN depths : depths[tool] = current_depth}

\* faulty variant: integration does not wait for the run loop
MayIntegrate_Always(running_left) == TRUE

\* the integrate loop follows the run loop of the same bucket
MayIntegrate(running_left) == running_left = {}

\* run variants that read network_df["smiles"] (create_smiles_csv_from_df)
RunReadsDf == {"classyfire", "toxtree"}

\* integrate variants by what they read and update
GraphIntegrations == {"sirius", "sirius_db"}

DfIntegrations == {"classyfire", "toxtree", "plastchemdb", "ms2lda", "mzmine"}

\* faulty variant: integrate_tool has a case for matchms as well
IntegrateVariants_WithMatchms ==
    GraphIntegrations \cup DfIntegrations \cup {"matchms"}

\* the identifiers integrate_tool has a case for; any other falls through
IntegrateVariants == GraphIntegrations \cup DfIntegrations

\* the identifiers run_tool has a case for; any other falls through
RunVariants == {"classyfire", "matchms", "ms2lda", "mzmine", "sirius", "toxtree"}

\* self.graph after integrate_tool(tool) has returned
integrate_tool_graph(tool, g) ==
    IF tool \in GraphIntegrations THEN [g EXCEPT !.attrs = @ \cup {tool}] ELSE g

\* faulty variant: the merged table holds the new columns only
integrate_tool_df_Replace(tool, df) ==
    IF tool \in DfIntegrations THEN [df EXCEPT !.attrs = {tool}] ELSE df

\* self.network_df after integrate_tool(tool) has returned
integrate_tool_df(tool, df) ==
    IF tool \in DfIntegrations THEN [df EXCEPT !.attrs = @ \cup {tool}] ELSE df

\* self.settings.toxtree.get("module"): the document's toxtree module
ToxtreeModule ==
    IF "toxtree_module" \in DOMAIN input THEN input.toxtree_module ELSE "absent"

\* config.get("modules", {}): the keys of the schema's module translations
ToxtreeModules ==
    LET r == ConfigGet("toxtree").running
    IN  IF "modules" \in DOMAIN r THEN r.modules ELSE {}

\* faulty variant: the toxtree module is not looked up before the run
run_tool_raises_NoModuleCheck(tool, df) ==
    IF tool \in RunReadsDf /\ ~df.init
    THEN Raise("TypeError", tool, {}, "create_smiles_csv_from_df")
    ELSE NoError

\* the exception a run variant raises before it calls its collaborator
run_tool_raises(tool, df) ==
    IF tool = "toxtree" /\ ToxtreeModule \notin ToxtreeModules
    THEN Raise("Settingserror", tool, {}, "toxtree_module")
    ELSE IF tool \in RunReadsDf /\ ~df.init
    THEN Raise("TypeError", tool, {}, "create_smiles_csv_from_df")
    ELSE NoError

\* the exception an integrate variant raises on state that is not there yet
integrate_tool_raises(tool, g, df) ==
    IF tool \in GraphIntegrations /\ ~g.init
    THEN Raise("TypeError", tool, {}, "integrate_sirius_to_graph")
    ELSE IF tool \in DfIntegrations /\ ~df.init
    THEN Raise("AttributeError", tool, {}, "integrate_tool")
    ELSE NoError

\* faulty variant: the exception is caught and the run goes on
Fail_Swallow(e) == /\ pc' = pc
                   /\ error' = e

Fail(e) == /\ pc' = "failed"
           /\ error' = e

\* WorkflowRunner.__init__
WorkflowRunner_init ==
    /\ pc = "new"
    /\ LET r == WorkflowSettings_init(input)
       IN  /\ error' = r.error
           /\ schema_loaded' = r.schema_loaded
           /\ folder_made' = r.folder_made
           /\ to_run' = r.to_run
           /\ to_integrate' = r.to_integrate
           /\ paths' = r.paths
           /\ pc' = IF r.error = NoError THEN "constructed" ELSE "failed_load"
    /\ graph' = Unset
    /\ network_df' = Unset
    /\ UNCHANGED <<input, config, running_depths, integration_depths, bucket,
                   running, integrating, active, log, written, steps, call>>

\* run_all up to the head of the loop over [1,2,3,4,"N/A"]
run_all ==
    /\ pc = "constructed"
    /\ running_depths' = get_depths(Range(to_run), "running")
    /\ integration_depths' = get_depths(Range(to_integrate), "integration")
    /\ bucket' = 1
    /\ pc' = "loop"
    /\ UNCHANGED <<settingsVars, error, running, integrating, active, log, graph,
                   network_df, written, steps,
                   call>>

\* the head of one iteration: the due sets and the two special transitions
BeginBucket ==
    /\ pc = "loop"
    /\ \E ok \in BOOLEAN :
         LET current_depth == DepthOrder[bucket]
         IN
         /\ (~MakesGraph(current_depth) /\ ~MakesNetwork(current_depth)) => ok
         \* read_graphml(self.settings.paths.get("base_network")) of no path
         /\ (MakesGraph(current_depth) /\ "base_network" \notin paths) => ~ok
         \* network_to_edgelist_and_nodes_df of the class nx.Graph
         /\ (MakesNetwork(current_depth) /\ ~MakesGraph(current_depth)
                /\ ~graph.init) => ~ok
         /\ IF ok
            THEN /\ running' = DueTools(running_depths, current_depth)
                 /\ integrating' = DueTools(integration_depths, current_depth)
                 /\ graph' = IF MakesGraph(current_depth)
                             THEN [init |-> TRUE, attrs |-> {}] ELSE graph
                 /\ network_df' =
                        IF MakesNetwork(current_depth)
                        THEN [init |-> TRUE,
                              attrs |-> graph'.attrs \cup {"smiles", "Molecular formula"}]
                        ELSE network_df
                 /\ steps' = [steps EXCEPT
                        !.read_graphml =
                            IF MakesGraph(current_depth) THEN @ + 1 ELSE @,
                        !.network_to_edgelist_and_nodes_df =
                            IF MakesNetwork(current_depth) THEN @ + 1 ELSE @]
                 /\ pc' = "dispatch"
                 /\ UNCHANGED error
            ELSE /\ Fail(Raise("Exception", "", {},
                               IF MakesGraph(current_depth) THEN "read_graphml"
                               ELSE "network_to_edgelist_and_nodes_df"))
                 /\ UNCHANGED <<running, integrating, graph, network_df, steps>>
    /\ UNCHANGED <<settingsVars, running_depths, integration_depths, bucket, active,
                   log, written, call>>

\* self.run_tool(tool) is entered
RunBegin ==
    /\ pc = "dispatch"
    /\ active = NoOp
    /\ \E tool \in running :
         /\ log' = Append(log, Event("run", tool, "begin"))
         /\ IF run_tool_raises(tool, network_df) # NoError
            THEN /\ Fail(run_tool_raises(tool, network_df))
                 /\ UNCHANGED <<active, steps>>
            ELSE /\ active' = [op |-> "run", tool |-> tool]
                 /\ steps' = [steps EXCEPT !.create_smiles_csv_from_df =
                                  IF tool \in RunReadsDf THEN @ + 1 ELSE @]
                 /\ UNCHANGED <<pc, error>>
    /\ UNCHANGED <<settingsVars, running_depths, integration_depths, bucket, running,
                   integrating, graph, network_df, written, call>>

\* the external collaborator returns, or fails
RunEnd ==
    /\ pc = "dispatch"
    /\ active.op = "run"
    /\ \E ok \in BOOLEAN :
         /\ (active.tool \notin RunVariants) => ok
         /\ IF ok
            THEN /\ log' = Append(log, Event("run", active.tool, "end"))
                 /\ running' = running \ {active.tool}
                 /\ active' = NoOp
                 /\ UNCHANGED <<pc, error>>
            ELSE /\ Fail(Raise("ExternalToolError", active.tool, {}, "run_tool"))
                 /\ UNCHANGED <<log, running, active>>
    /\ UNCHANGED <<settingsVars, running_depths, integration_depths, bucket,
                   integrating, graph, network_df, written, steps,
                   call>>

\* self.integrate_tool(integration) is entered
IntegrateBegin ==
    /\ pc = "dispatch"
    /\ active = NoOp
    /\ MayIntegrate(running)
    /\ \E tool \in integrating :
         /\ log' = Append(log, Event("integrate", tool, "begin"))
         /\ active' = [op |-> "integrate", tool |-> tool]
    /\ UNCHANGED <<settingsVars, error, pc, running_depths, integration_depths,
                   bucket, running, integrating, graph, network_df, written, steps,
                   call>>

\* the result is folded into the graph or the projection, or the variant fails
IntegrateEnd ==
    /\ pc = "dispatch"
    /\ active.op = "integrate"
    /\ \E ok \in BOOLEAN :
         /\ (integrate_tool_raises(active.tool, graph, network_df) # NoError)
                => ~ok
         /\ (active.tool \notin IntegrateVariants) => ok
         /\ IF ok
            THEN /\ log' = Append(log, Event("integrate", active.tool, "end"))
                 /\ integrating' = integrating \ {active.tool}
                 /\ graph' = integrate_tool_graph(active.tool, graph)
                 /\ network_df' = integrate_tool_df(active.tool, network_df)
                 /\ active' = NoOp
                 /\ UNCHANGED <<pc, error>>
            ELSE /\ Fail(IF integrate_tool_raises(active.tool, graph,
                                                  network_df) # NoError
                         THEN integrate_tool_raises(active.tool, graph,
                                                    network_df)
                         ELSE Raise("ExternalToolError", active.tool, {},
                                    "integrate_tool"))
                 /\ UNCHANGED <<log, integrating, graph, network_df, active>>
    /\ UNCHANGED <<settingsVars, running_depths, integration_depths, bucket, running,
                   written, steps, call>>

\* both loops of the bucket are exhausted
EndBucket ==
    /\ pc = "dispatch"
    /\ active = NoOp
    /\ running = {}
    /\ integrating = {}
    /\ IF ~LastBucket(bucket)
       THEN bucket' = bucket + 1 /\ pc' = "loop"
       ELSE bucket' = bucket /\ pc' = "after_loop"
    /\ UNCHANGED <<settingsVars, error, running_depths, integration_depths, running,
                   integrating, active, log, graph, network_df, written, steps,
                   call>>

\* the class consensus columns (lines 128-129)
ConsensusClass ==
    /\ pc = "after_loop"
    /\ \E ok \in BOOLEAN :
         \* self.network_df.apply of the class pd.DataFrame
         /\ ~network_df.init => ~ok
         /\ IF ok
            THEN /\ network_df' = [network_df EXCEPT
                                     !.attrs = @ \cup ClassLevels]
                 /\ steps' = [steps EXCEPT !.get_consensus_class = @ + 1]
                 /\ pc' = "produce"
                 /\ UNCHANGED error
            ELSE /\ Fail(Raise("Exception", "", {}, "get_consensus_class"))
                 /\ UNCHANGED <<network_df, steps>>
    /\ UNCHANGED <<settingsVars, running_depths, integration_depths, bucket, running,
                   integrating, active, log, graph, written, call>>

\* produce_integrated_graphml: the topology filter, then the write
Finalize ==
    /\ pc = "produce"
    /\ \E ok \in BOOLEAN :
         IF ok
         THEN /\ steps' = [steps EXCEPT !.filter_component = @ + 1]
              /\ written' = written + 1
              /\ pc' = "done"
              /\ UNCHANGED error
         ELSE /\ Fail(Raise("Exception", "", {}, "produce_integrated_graphml"))
              /\ UNCHANGED <<steps, written>>
    /\ UNCHANGED <<settingsVars, running_depths, integration_depths, bucket, running,
                   integrating, active, log, graph, network_df, call>>

Next == \/ WorkflowRunner_init
        \/ run_all
        \/ BeginBucket
        \/ RunBegin
        \/ RunEnd
        \/ IntegrateBegin
        \/ IntegrateEnd
        \/ EndBucket
        \/ ConsensusClass
        \/ Finalize

-----------------------------------------------------------------------------
(* Initial states: the documents a user can hand to WorkflowRunner(...)     *)

ScenarioTools == {"matchms", "sirius", "classyfire"}

\* the (tool, goal) operations whose flag the documents may set
ScenarioOps == {<<"matchms", "running">>, <<"matchms", "integration">>,
                <<"sirius", "running">>, <<"sirius", "integration">>,
                <<"classyfire", "running">>, <<"classyfire", "integration">>}

\* at most this many operations are selected in one document
MaxSelected == 4

\* depth values the schemas of the pipeline runs carry for a selected operation
MainDepths == {"absent", "i:1", "s:3", "i:4"}

Req(p, s, op, os) ==
    [paths |-> p, settings |-> s, optional_paths |-> op, optional_settings |-> os]

\* Requirement scenarios: the user's extra paths, the parameter blocks, and
\* the requirements the schema declares per (tool, goal).
ReqScenarios ==
    { [name |-> "none", extra |-> {}, blocks |-> <<>>, reqs |-> <<>>],
      [name |-> "met", extra |-> {"metadata_csv", "quant_table", "base_network"},
       blocks |-> [t \in {"sirius", "all_tools"} |-> {"instrument", "name"}],
       reqs |-> (<<"all_tools", "running">> :> Req({"metadata_csv"}, {}, <<>>, <<>>))
             @@ (<<"all_tools", "integration">> :>
                    Req({}, {"name"}, <<{"metadata_csv", "quant_table"}>>, <<>>))
             @@ (<<"sirius", "running">> :>
                    Req({"sirius_output"}, {"instrument"}, <<>>, <<>>))],
      [name |-> "all_tools_path_missing", extra |-> {}, blocks |-> <<>>,
       reqs |-> (<<"all_tools", "running">> :> Req({"metadata_csv"}, {}, <<>>, <<>>))],
      [name |-> "all_tools_setting_missing", extra |-> {}, blocks |-> <<>>,
       reqs |-> (<<"all_tools", "integration">> :> Req({}, {"name"}, <<>>, <<>>))],
      [name |-> "all_tools_group_empty", extra |-> {}, blocks |-> <<>>,
       reqs |-> (<<"all_tools", "integration">> :>
                    Req({}, {}, <<{"metadata_csv", "quant_table"}>>, <<>>))],
      [name |-> "group_partial", extra |-> {"metadata_csv"}, blocks |-> <<>>,
       reqs |-> (<<"all_tools", "running">> :>
                    Req({}, {}, <<{"metadata_csv", "quant_table"}>>, <<>>))],
      [name |-> "sirius_setting_missing", extra |-> {},
       blocks |-> [t \in {"sirius"} |-> {"formula_db"}],
       reqs |-> (<<"sirius", "running">> :>
                    Req({"sirius_output"}, {"instrument"}, <<>>, <<>>))],
      [name |-> "classyfire_path_missing", extra |-> {}, blocks |-> <<>>,
       reqs |-> (<<"classyfire", "integration">> :>
                    Req({"plastchem_path"}, {}, <<>>, <<>>))] }

ReqOf(sc, tool, goal) ==
    IF <<tool, goal>> \in DOMAIN sc.reqs THEN sc.reqs[<<tool, goal>>] ELSE NoReq

\* the schema document: depth per selected operation, requirements of sc
SchemaOf(sc, depth) ==
    [t \in ScenarioTools \cup {"all_tools"} |->
        [depth |-> "absent",
         running |-> [depth |-> IF <<t, "running">> \in DOMAIN depth
                                THEN depth[<<t, "running">>] ELSE "absent",
                      requirements |-> ReqOf(sc, t, "running")],
         integration |-> [depth |-> IF <<t, "integration">> \in DOMAIN depth
                                    THEN depth[<<t, "integration">>] ELSE "absent",
                          requirements |-> ReqOf(sc, t, "integration")]]]

FlagOf(selected, tool, goal) ==
    IF <<tool, goal>> \in selected THEN "s:True" ELSE "absent"

\* nothing has been constructed
Fresh ==
    /\ paths = {}
    /\ to_run = <<>>
    /\ to_integrate = <<>>
    /\ schema_loaded = FALSE
    /\ folder_made = FALSE
    /\ error = NoError
    /\ running_depths = <<>>
    /\ integration_depths = <<>>
    /\ bucket = 0
    /\ running = {}
    /\ integrating = {}
    /\ active = NoOp
    /\ log = <<>>
    /\ graph = Unset
    /\ network_df = Unset
    /\ written = 0
    /\ steps = NoSteps

\* a document that misses required keys, or whose flag sections are no mappings
InitBadDocument ==
    \E keys \in SUBSET required_settings, pk \in SUBSET required_paths,
       kind \in {"object", "other"} :
        /\ ~(keys = required_settings /\ pk = required_paths /\ kind = "object")
        /\ ("paths" \notin keys) => pk = {}
        /\ input = [keys |-> keys, paths |-> pk, flags_kind |-> kind,
                    run_tools |-> <<>>, integrate_tools |-> <<>>, blocks |-> <<>>]
        /\ config = SchemaOf(CHOOSE sc \in ReqScenarios : sc.name = "none", <<>>)

\* a well-formed document: any selection, depths and requirement scenario
InitGoodDocument ==
    \E selected \in SUBSET ScenarioOps, sc \in ReqScenarios :
      \E depth \in [selected -> MainDepths] :
        /\ Cardinality(selected) <= MaxSelected
        /\ input = [keys |-> required_settings,
                    paths |-> required_paths \cup sc.extra,
                    flags_kind |-> "object",
                    run_tools |-> [t \in ScenarioTools |->
                                      FlagOf(selected, t, "running")],
                    integrate_tools |-> [t \in ScenarioTools |->
                                            FlagOf(selected, t, "integration")],
                    blocks |-> sc.blocks]
        /\ config = SchemaOf(sc, depth)

Init ==
    /\ pc = "new"
    /\ call = [fn |-> "none"]
    /\ Fresh
    /\ (InitBadDocument \/ InitGoodDocument)

Spec == Init /\ [][Next]_vars

-----------------------------------------------------------------------------
(* Properties of the pipeline (specification Spec) *)

BucketIndex(depth) == CHOOSE i \in DOMAIN DepthOrder : DepthOrder[i] = depth

\* the bucket of a logged operation, by the depth get_depths resolved for it
EventBucket(e) ==
    IF e.op = "run" THEN BucketIndex(running_depths[e.tool])
    ELSE BucketIndex(integration_depths[e.tool])

EndedBefore(op, tool, i) ==
    \E k \in DOMAIN log : k < i /\ log[k] = Event(op, tool, "end")

\* C1: buckets are processed in the order 1, 2, 3, 4, "N/A": whenever an
\* operation begins, every dispatched operation (run or integrate) whose
\* resolved depth lies in an earlier bucket has already completed, and no
\* operation of an earlier bucket is dispatched after it.
C1_BucketOrder ==
    \A i, j \in DOMAIN log :
        (/\ log[i].ev = "begin"
         /\ log[j].ev = "begin"
         /\ EventBucket(log[j]) < EventBucket(log[i]))
        => EndedBefore(log[j].op, log[j].tool, i)

C1_Witness ==
    /\ pc = "done"
    /\ \E i, j \in DOMAIN log :
         /\ log[i].ev = "begin" /\ log[j].ev = "begin"
         /\ log[i].op = "run" /\ log[j].op = "integrate"
         /\ EventBucket(log[j]) < EventBucket(log[i])

\* C2: within a bucket, when an integrate-dispatch begins, the run-dispatch
\* of every tool whose running depth is that bucket has completed.
C2_RunBeforeIntegrate ==
    \A i \in DOMAIN log :
        (log[i].op = "integrate" /\ log[i].ev = "begin") =>
            \A tool \in DOMAIN running_depths :
                running_depths[tool] = integration_depths[log[i].tool]
                => EndedBefore("run", tool, i)

C2_Witness ==
    /\ pc = "done"
    /\ \E i \in DOMAIN log :
         /\ log[i].op = "integrate" /\ log[i].ev = "begin"
         /\ Cardinality({tool \in DOMAIN running_depths :
                running_depths[tool] = integration_depths[log[i].tool]}) >= 2

\* the tools a document selects: in the catalog, flag exactly "True"
SelectedFor(catalog, flags) ==
    {tool \in Range(catalog) : FlagGet(flags, tool) = "s:True"}

\* the paths map once every selected tool has registered its paths
ResolvedPaths ==
    input.paths \cup
    UNION {RegisteredPaths(tool) :
             tool \in SelectedFor(available_tools, input.run_tools)
                      \cup SelectedFor(available_integrations, input.integrate_tools)}

\* a requirement of (tool, goal) is unmet: a required key is missing, or an
\* optional group has no member present
Unmet(tool, goal) ==
    LET r == get_tool_requirements(tool, goal)
        block == BlockGet(input, tool)
    IN  \/ ~(r.paths \subseteq ResolvedPaths)
        \/ ~(r.settings \subseteq block)
        \/ \E i \in DOMAIN r.optional_paths :
              r.optional_paths[i] \cap ResolvedPaths = {}
        \/ \E i \in DOMAIN r.optional_settings :
              r.optional_settings[i] \cap block = {}

SelectedUnmet ==
    \/ \E tool \in SelectedFor(available_tools, input.run_tools) :
          Unmet(tool, "running")
    \/ \E tool \in SelectedFor(available_integrations, input.integrate_tools) :
          Unmet(tool, "integration")

NothingDispatched == log = <<>> /\ active = NoOp /\ written = 0

\* C6: when a requirement of a tool selected for running or for integration
\* is unmet, construction fails (with a Settingserror on a well-formed
\* document) and no run- or integrate-dispatch ever occurs.
C6_FailFast ==
    SelectedUnmet =>
        /\ pc \in {"new", "failed_load"}
        /\ NothingDispatched
        /\ pc = "failed_load" => error.exc = "Settingserror"

C6_Witness ==
    /\ pc = "failed_load"
    /\ SelectedUnmet
    /\ ~Unmet("all_tools", "running")
    /\ ~Unmet("all_tools", "integration")
    /\ error.tool = "classyfire"

MissingTopLevel ==
    \/ ~(required_settings \subseteq input.keys)
    \/ ~(required_paths \subseteq input.paths)

\* C7: a document lacking paths, run_tools or integrate_tools, or whose paths
\* lacks base_output_folder or internal_settings, is rejected with a
\* Settingserror before the schema is loaded, before the output folder is
\* created and before any dispatch; with the keys present the validation
\* passes whatever the values are.
C7_RequiredKeys ==
    /\ MissingTopLevel =>
          /\ pc \in {"new", "failed_load"}
          /\ ~schema_loaded
          /\ ~folder_made
          /\ NothingDispatched
          /\ pc = "failed_load" =>
                (error.exc = "Settingserror" /\ error.at \in {"required_settings",
                                                             "required_paths"})
    /\ (~MissingTopLevel /\ pc # "new") =>
          (schema_loaded /\ error.at \notin {"required_settings", "required_paths"})

C7_Witness ==
    /\ pc = "failed_load"
    /\ input.keys = required_settings
    /\ input.paths = {"internal_settings"}
    /\ error.exc = "Settingserror"

\* C8: the all_tools requirements are validated for both goals on every load,
\* whatever the selection: a well-formed document with an unmet all_tools
\* requirement (running or integration) never gets past construction.
C8_AllTools ==
    (~MissingTopLevel
     /\ (Unmet("all_tools", "running") \/ Unmet("all_tools", "integration"))) =>
        /\ pc \in {"new", "failed_load"}
        /\ NothingDispatched
        /\ pc = "failed_load" => error.exc = "Settingserror"

C8_Witness ==
    /\ pc = "failed_load"
    /\ SelectedFor(available_tools, input.run_tools) = {}
    /\ SelectedFor(available_integrations, input.integrate_tools) = {}
    /\ Unmet("all_tools", "integration")
    /\ ~Unmet("all_tools", "running")
    /\ error.tool = "all_tools"

-----------------------------------------------------------------------------
(* get_depths on its own (specification SpecDepth): one tool, every value a *)
(* schema document can carry in the two depth fields.                       *)

DepthVals == {"absent", "null", "i:0", "i:1", "i:2", "i:3", "i:4", "i:5",
              "s:1", "s:2", "s:3", "s:4", "s:5", "s:N/A", "s:unscheduled",
              "s:", "b:true"}

EmptyDocument ==
    [keys |-> required_settings, paths |-> required_paths, flags_kind |-> "object",
     run_tools |-> <<>>, integrate_tools |-> <<>>, blocks |-> <<>>]

InitDepth ==
    /\ pc = "get_depths"
    /\ call = [fn |-> "none"]
    /\ Fresh
    /\ input = EmptyDocument
    /\ \E td \in DepthVals, rd \in DepthVals, id \in DepthVals :
         config = [t \in {"sirius"} |->
                     [depth |-> td,
                      running |-> [depth |-> rd, requirements |-> NoReq],
                      integration |-> [depth |-> id, requirements |-> NoReq]]]

CallGetDepths ==
    /\ pc = "get_depths"
    /\ call.fn = "none"
    /\ \E goal \in {"running", "integration"} :
         call' = [fn |-> "get_depths", tool |-> "sirius", goal |-> goal,
                  result |-> get_depths({"sirius"}, goal)]
    /\ UNCHANGED <<settingsVars, runVars, error, pc>>

NextDepth == CallGetDepths

SpecDepth == InitDepth /\ [][NextDepth]_vars

\* a depth field is set when the key is there and its value is not null
IsSet(v) == v \notin {"absent", "null"}

\* the depth a schema value denotes, for the values that denote one
DenotedDepth(v) ==
    CASE v \in {"i:1", "s:1"} -> "i:1"
      [] v \in {"i:2", "s:2"} -> "i:2"
      [] v \in {"i:3", "s:3"} -> "i:3"
      [] v \in {"i:4", "s:4"} -> "i:4"
      [] v = "s:N/A" -> "s:N/A"
      [] OTHER -> "none"

\* C3: get_depths gives every tool a depth in {1,2,3,4,"N/A"}: the goal
\* depth when it is set, else the tool-level depth, else "N/A"; for every
\* value of the two depth fields.
C3_DepthResolution ==
    call.fn = "get_depths" =>
        LET gd == GoalGet(ConfigGet(call.tool), call.goal).depth
            td == ConfigGet(call.tool).depth
        IN  /\ call.tool \in DOMAIN call.result
            /\ call.result[call.tool] \in Range(DepthOrder)
            /\ (IsSet(gd) /\ DenotedDepth(gd) # "none")
                  => call.result[call.tool] = DenotedDepth(gd)
            /\ (~IsSet(gd) /\ IsSet(td) /\ DenotedDepth(td) # "none")
                  => call.result[call.tool] = DenotedDepth(td)
            /\ (~IsSet(gd) /\ ~IsSet(td)) => call.result[call.tool] = "s:N/A"

-----------------------------------------------------------------------------
(* validate_tool_requirements on its own (specification SpecReq)            *)

ReqPathKeys == {"input_mgf", "sirius_path"}

GroupPathKeys == {"file_list", "data_folder"}

ReqSettingKeys == {"instrument", "formula_db"}

GroupSettingKeys == {"profile", "ppm"}

InitReq ==
    /\ pc = "validate_tool_requirements"
    /\ call = [fn |-> "none"]
    /\ to_run = <<>> /\ to_integrate = <<>>
    /\ schema_loaded = TRUE /\ folder_made = TRUE
    /\ error = NoError
    /\ running_depths = <<>> /\ integration_depths = <<>>
    /\ bucket = 0 /\ running = {} /\ integrating = {}
    /\ active = NoOp /\ log = <<>>
    /\ graph = Unset /\ network_df = Unset /\ written = 0
    /\ steps = NoSteps
    /\ paths \in SUBSET (ReqPathKeys \cup GroupPathKeys)
    /\ \E blocks \in {<<>>} \cup
                     {[t \in {"sirius"} |-> b] :
                        b \in SUBSET (ReqSettingKeys \cup GroupSettingKeys)} :
         input = [EmptyDocument EXCEPT !.blocks = blocks]
    /\ \E rp \in SUBSET ReqPathKeys, rs \in SUBSET ReqSettingKeys,
          op \in {<<>>, <<GroupPathKeys>>}, os \in {<<>>, <<GroupSettingKeys>>} :
         config = [t \in {"sirius"} |->
                     [depth |-> "absent",
                      running |-> [depth |-> "absent",
                                   requirements |-> Req(rp, rs, op, os)],
                      integration |-> EmptyGoal]]

CallValidate ==
    /\ pc = "validate_tool_requirements"
    /\ call.fn = "none"
    /\ call' = [fn |-> "validate_tool_requirements", tool |-> "sirius",
                goal |-> "running",
                result |-> validate_tool_requirements("sirius",
                              get_tool_requirements("sirius", "running"),
                              paths, input)]
    /\ UNCHANGED <<settingsVars, runVars, error, pc>>

NextReq == CallValidate

SpecReq == InitReq /\ [][NextReq]_vars

MissingPaths == get_tool_requirements(call.tool, call.goal).paths \ paths

MissingSettings ==
    get_tool_requirements(call.tool, call.goal).settings \ BlockGet(input, call.tool)

\* C4 as stated: with a required path or a required setting missing the call
\* fails with a Settingserror whose diagnostic names the tool and the
\* specific missing keys (every key it names is a missing one).
C4_NamesMissingKeys ==
    (call.fn = "validate_tool_requirements"
     /\ (MissingPaths # {} \/ MissingSettings # {})) =>
        /\ call.result.exc = "Settingserror"
        /\ call.result.tool = call.tool
        /\ call.result.names # {}
        /\ call.result.names \subseteq (MissingPaths \cup MissingSettings)

\* C4 amended: with a required path or a required setting missing the call
\* fails with a Settingserror that names the tool and lists the whole
\* required list of the first failing check (paths before settings), which
\* contains the missing keys of that check.
C4_ListsRequiredSet ==
    (call.fn = "validate_tool_requirements"
     /\ (MissingPaths # {} \/ MissingSettings # {})) =>
        LET r == get_tool_requirements(call.tool, call.goal)
        IN  /\ call.result.exc = "Settingserror"
            /\ call.result.tool = call.tool
            /\ MissingPaths # {} =>
                  (call.result.names = r.paths /\ call.result.at = "paths")
            /\ MissingPaths = {} =>
                  (call.result.names = r.settings /\ call.result.at = "settings")

C4_Witness ==
    /\ call.fn = "validate_tool_requirements"
    /\ MissingPaths = {}
    /\ MissingSettings = {"formula_db"}
    /\ call.result.names = {"instrument", "formula_db"}
    /\ call.result.tool = "sirius"

\* C5: optional groups have OR semantics: with every required key present
\* the call passes exactly when each optional path group and each optional
\* setting group has at least one member present, and a failure names a
\* group none of whose members is present.
C5_OptionalGroupsOr ==
    (call.fn = "validate_tool_requirements"
     /\ MissingPaths = {} /\ MissingSettings = {}) =>
        LET r == get_tool_requirements(call.tool, call.goal)
            block == BlockGet(input, call.tool)
            emptyP == {i \in DOMAIN r.optional_paths :
                         r.optional_paths[i] \cap paths = {}}
            emptyS == {i \in DOMAIN r.optional_settings :
                         r.optional_settings[i] \cap block = {}}
        IN  /\ (call.result = NoError) <=> (emptyP = {} /\ emptyS = {})
            /\ call.result # NoError =>
                  \/ \E i \in emptyP : call.result.names = r.optional_paths[i]
                  \/ \E i \in emptyS : call.result.names = r.optional_settings[i]

-----------------------------------------------------------------------------
(* Consensus resolution on one row of network_df (specification             *)
(* SpecConsensus).  A row maps column names to cell values; "absent" is a   *)
(* column the table does not have.                                          *)

\* row.get(column)
RowGet(row, column) == IF column \in DOMAIN row THEN row[column] ELSE "absent"

Returned(v) == [exc |-> "none", value |-> v]

\* row[column]: a KeyError when the row has no such label
Subscript(row, column) ==
    IF RowGet(row, column) = "absent"
    THEN [exc |-> "KeyError", value |-> column]
    ELSE Returned(row[column])

get_consensus_formula(row) ==
    LET primary == IF ~Truthy(RowGet(row, "sirius:molecularFormula"))
                   THEN "s:N/A" ELSE row["sirius:molecularFormula"]
    IN  IF Truthy(RowGet(row, "sirius_db:molecularFormula"))
        THEN IF IsStr(row["sirius_db:molecularFormula"])
             THEN Returned(row["sirius_db:molecularFormula"])
             ELSE Returned(primary)
        ELSE Returned(primary)

get_consensus_smiles(row) ==
    LET primary == IF ~Truthy(RowGet(row, "csifingerid:smiles"))
                   THEN "s:N/A" ELSE row["csifingerid:smiles"]
        secondary == Subscript(row, "csifingerid_db:smiles")
    IN  IF Truthy(RowGet(row, "CF"))
        THEN IF secondary.exc # "none" THEN secondary
             ELSE IF IsStr(secondary.value) THEN secondary
             ELSE Returned(primary)
        ELSE Returned(primary)

\* cell values: no column, None, nan, "", "N/A" and two proper strings
CellVals == {"absent", "null", "NaN", "s:", "s:N/A", "s:X", "s:Y"}

\* the "CF" cell get_consensus_smiles looks at
CFVals == {"absent", "null", "NaN", "s:Z"}

\* f"canopus:CF_{classtype}"
CanopusColumn(classtype) ==
    CASE classtype = "subclass" -> "canopus:CF_subclass"
      [] classtype = "class" -> "canopus:CF_class"
      [] classtype = "superclass" -> "canopus:CF_superclass"

\* f"CF:{classtype}"
ClassyfireColumn(classtype) ==
    CASE classtype = "subclass" -> "CF:subclass"
      [] classtype = "class" -> "CF:class"
      [] classtype = "superclass" -> "CF:superclass"

\* the row after row[column] = value
RowSet(row, column, value) ==
    [c \in DOMAIN row \cup {column} |-> IF c = column THEN value ELSE row[c]]

get_consensus_class(row, classtype) ==
    LET row1 == IF ~Truthy(RowGet(row, CanopusColumn(classtype)))
                THEN RowSet(row, CanopusColumn(classtype), "s:N/A") ELSE row
        secondary == Subscript(row1, ClassyfireColumn(classtype))
    IN  IF secondary.exc # "none" THEN secondary
        ELSE IF secondary.value # "s:N/A" THEN secondary
        ELSE Returned(row1[CanopusColumn(classtype)])

\* the formula and structure cells of a row
FormulaSmilesRow(f, fdb, sm, smdb, cf) ==
    ("sirius:molecularFormula" :> f)
        @@ ("sirius_db:molecularFormula" :> fdb)
        @@ ("csifingerid:smiles" :> sm)
        @@ ("csifingerid_db:smiles" :> smdb)
        @@ ("CF" :> cf)

\* rows whose formula and structure cells vary, and rows that carry the two
\* class cells of one level
InitConsensus ==
    /\ pc = "consensus"
    /\ Fresh
    /\ input = EmptyDocument
    /\ config = <<>>
    /\ \/ \E f \in CellVals, fdb \in CellVals, sm \in CellVals,
             smdb \in CellVals, cf \in CFVals :
            call = [fn |-> "none", row |-> FormulaSmilesRow(f, fdb, sm, smdb, cf)]
       \/ \E level \in ClassLevels, can \in CellVals, cfc \in CellVals :
            call = [fn |-> "none",
                    row |-> (CanopusColumn(level) :> can)
                         @@ (ClassyfireColumn(level) :> cfc)
                         @@ FormulaSmilesRow("s:X", "absent", "s:X", "absent",
                                             "absent")]

CallConsensusFormula ==
    /\ pc = "consensus"
    /\ call.fn = "none"
    /\ call' = [fn |-> "get_consensus_formula", row |-> call.row,
                result |-> get_consensus_formula(call.row)]
    /\ UNCHANGED <<settingsVars, runVars, error, pc>>

CallConsensusSmiles ==
    /\ pc = "consensus"
    /\ call.fn = "none"
    /\ call' = [fn |-> "get_consensus_smiles", row |-> call.row,
                result |-> get_consensus_smiles(call.row)]
    /\ UNCHANGED <<settingsVars, runVars, error, pc>>

CallConsensusClass ==
    /\ pc = "consensus"
    /\ call.fn = "none"
    /\ \E classtype \in ClassLevels :
         call' = [fn |-> "get_consensus_class", row |-> call.row,
                  classtype |-> classtype,
                  result |-> get_consensus_class(call.row, classtype)]
    /\ UNCHANGED <<settingsVars, runVars, error, pc>>

NextConsensus ==
    CallConsensusFormula \/ CallConsensusSmiles \/ CallConsensusClass

SpecConsensus == InitConsensus /\ [][NextConsensus]_vars

\* a missing value: no such column, None or nan
Missing(v) == v \in {"absent", "null", "NaN"}

\* a present value: a proper string
Present(v) == v \in {"s:X", "s:Y"}

\* the four-case rule for a primary cell p and a secondary cell s
FourCases(p, s, result) ==
    /\ result.exc = "none"
    /\ (Present(p) /\ Missing(s)) => result.value = p
    /\ (Missing(p) /\ Present(s)) => result.value = s
    /\ (Present(p) /\ Present(s)) => result.value = s
    /\ (Missing(p) /\ Missing(s)) => result.value = "s:N/A"

\* C9: get_consensus_formula follows the four-case rule on every row:
\* X/missing gives X, missing/Y gives Y, X/Y gives Y, missing/missing gives
\* "N/A" (primary sirius:molecularFormula, secondary sirius_db:molecularFormula).
C9_FormulaFourCases ==
    call.fn = "get_consensus_formula" =>
        FourCases(call.row["sirius:molecularFormula"],
                  call.row["sirius_db:molecularFormula"], call.result)

\* C10: get_consensus_smiles follows the four-case rule on every row
\* (primary csifingerid:smiles, secondary csifingerid_db:smiles), whatever
\* the other cells of the row hold, and never raises.
C10_SmilesFourCases ==
    call.fn = "get_consensus_smiles" =>
        FourCases(call.row["csifingerid:smiles"],
                  call.row["csifingerid_db:smiles"], call.result)

\* C11: get_consensus_class follows the four-case rule for each level
\* (primary canopus:CF_<level>, secondary CF:<level>): a missing secondary
\* (no column, None or nan) yields the primary and both missing yield "N/A".
C11_ClassFourCases ==
    call.fn = "get_consensus_class" =>
        FourCases(RowGet(call.row, CanopusColumn(call.classtype)),
                  RowGet(call.row, ClassyfireColumn(call.classtype)),
                  call.result)

-----------------------------------------------------------------------------
(* Integration of a tabular record into network_df (specification           *)
(* SpecMerge).  network_df maps a node to its row; a record is a set of     *)
(* rows [key, value] with one row per key.                                  *)

\* self.integration_col
integration_col == "smiles"

\* the variants that merge parsed records into network_df
RecordIntegrations == {"classyfire", "toxtree", "plastchemdb"}

\* left-outer join of the records onto the table, on non-missing keys: a
\* matched row takes the record's value in column col, an unmatched row
\* keeps its cells (and has nan in a column that is new)
integrate_df_cols_to_df(df, records, key_col, col) ==
    [n \in DOMAIN df |->
        LET k == RowGet(df[n], key_col)
            matches == {r \in records : r.key = k}
        IN  IF k \notin {"absent", "null", "NaN"} /\ matches # {}
            THEN RowSet(df[n], col, (CHOOSE r \in matches : TRUE).value)
            ELSE IF col \in DOMAIN df[n] THEN df[n]
            ELSE RowSet(df[n], col, "NaN")]

\* faulty variant: the records and the table change places in the call
integrate_tool_records_Swapped(tool, df, records) ==
    [k \in {r.key : r \in records} |->
        (integration_col :> k)
            @@ (tool :> (CHOOSE r \in records : r.key = k).value)]

\* self.network_df = integrate_df_cols_to_df(self.network_df, records, ...)
integrate_tool_records(tool, df, records) ==
    integrate_df_cols_to_df(df, records, integration_col, tool)

MergeNodes == {"n1", "n2"}

\* join-key cells of the table and keys of the record ("s:Z" is in no row)
MergeKeyVals == {"s:X", "s:Y", "NaN"}

RecordKeyVals == {"s:X", "s:Z", "NaN"}

\* columns the table has before the merge
MergeRows ==
    {(integration_col :> k) @@ ("Molecular formula" :> f)
        : k \in MergeKeyVals, f \in {"s:X", "NaN"}}
    \cup {(integration_col :> k) @@ ("Molecular formula" :> "s:X")
              @@ (tool :> "s:Y")
              : k \in MergeKeyVals, tool \in RecordIntegrations}

InitMerge ==
    /\ pc = "merge"
    /\ Fresh
    /\ input = EmptyDocument
    /\ config = <<>>
    /\ \E df \in [MergeNodes -> MergeRows], keys \in SUBSET RecordKeyVals :
         call = [fn |-> "none", df |-> df,
                 records |-> {[key |-> k, value |-> "s:X"] : k \in keys}]

CallIntegrateRecords ==
    /\ pc = "merge"
    /\ call.fn = "none"
    /\ \E tool \in RecordIntegrations :
         call' = [fn |-> "integrate_tool", tool |-> tool, df |-> call.df,
                  records |-> call.records,
                  result |-> integrate_tool_records(tool, call.df,
                                                    call.records)]
    /\ UNCHANGED <<settingsVars, runVars, error, pc>>

NextMerge == CallIntegrateRecords

SpecMerge == InitMerge /\ [][NextMerge]_vars

\* the table row of node n has no record with its join key
Unmatched(df, records, n) ==
    \/ df[n][integration_col] = "NaN"
    \/ \A r \in records : r.key # df[n][integration_col]

\* C12: integrating a tabular record is a left-outer join on the join key:
\* the rows (nodes) of network_df are the same before and after, a row with
\* no matching record key keeps every cell it had, and a record row with no
\* matching table row adds no row.
C12_LeftOuterJoin ==
    call.fn = "integrate_tool" =>
        /\ DOMAIN call.result = DOMAIN call.df
        /\ \A n \in DOMAIN call.df :
             Unmatched(call.df, call.records, n) =>
                 \A c \in DOMAIN call.df[n] :
                     /\ c \in DOMAIN call.result[n]
                     /\ call.result[n][c] = call.df[n][c]

\* a merge with a matched row, an unmatched row and an unmatched record
C12_Witness ==
    /\ call.fn = "integrate_tool"
    /\ \E n \in DOMAIN call.df : Unmatched(call.df, call.records, n)
    /\ \E n \in DOMAIN call.df :
         /\ ~Unmatched(call.df, call.records, n)
         /\ call.result[n][call.tool] = "s:X"
    /\ \E r \in call.records :
         \A n \in DOMAIN call.df : call.df[n][integration_col] # r.key

-----------------------------------------------------------------------------
(* produce_integrated_graphml (specification SpecGraph).  network_df maps a *)
(* node to its row, network_edgelist is a set of edges                      *)
(* [source, target, attrs]; a graph is [nodes, edges] with nodes a function *)
(* from node to its attributes.                                             *)

\* filter_component(integrated_network, 100)
ComponentLimit == 100

\* the nodes one step away from a node of front
Neighbours(edges, front) ==
    {e.target : e \in {d \in edges : d.source \in front}}
        \cup {e.source : e \in {d \in edges : d.target \in front}}

RECURSIVE Reach(_, _, _)
\* the nodes connected to seen, front being the nodes found last
Reach(edges, seen, front) ==
    LET new == Neighbours(edges, front) \ seen
    IN  IF new = {} THEN seen ELSE Reach(edges, seen \cup new, new)

RECURSIVE connected_components(_, _)
\* nx.connected_components: the partition of the nodes into components
connected_components(nodes, edges) ==
    IF nodes = {} THEN {}
    ELSE LET n == CHOOSE m \in nodes : TRUE
             c == Reach(edges, {n}, {n})
         IN  {c} \cup connected_components(nodes \ c, edges)

\* nx.from_pandas_edgelist(edgelist, edge_attr=True): the end points become
\* nodes without attributes, every edge keeps the cells of its row
from_pandas_edgelist(edgelist) ==
    [nodes |-> [n \in {e.source : e \in edgelist}
                       \cup {e.target : e \in edgelist} |-> <<>>],
     edges |-> edgelist]

\* DataFrame.astype(str) on one cell
astype_str(v) ==
    CASE v = "NaN" -> "s:nan"
      [] v = "null" -> "s:None"
      [] v = "i:1" -> "s:1"
      [] OTHER -> v

\* the text forms of a missing value become "N/A"
convert_missing(v) ==
    IF v \in {"s:nan", "s:None", "s:"} THEN "s:N/A" ELSE v

\* components of more than limit nodes are removed whole
filter_component(G, limit) ==
    LET big == UNION {c \in connected_components(DOMAIN G.nodes, G.edges)
                         : Cardinality(c) > limit}
    IN  [nodes |-> [n \in DOMAIN G.nodes \ big |-> G.nodes[n]],
         edges |-> {e \in G.edges : e.source \notin big}]

\* faulty variant: the rows of the table are not put on the graph
IntegratedNetwork_EdgesOnly(df, edgelist) == from_pandas_edgelist(edgelist)

\* the graph before the topology filter: the edge list's graph, with a node
\* for every row of the table and the row's cleaned cells as its attributes
IntegratedNetwork(df, edgelist) ==
    LET integrated_network == from_pandas_edgelist(edgelist)
        nodes_dict == [n \in DOMAIN df |->
                          [c \in DOMAIN df[n] |->
                              convert_missing(astype_str(df[n][c]))]]
    IN  [nodes |-> [n \in DOMAIN integrated_network.nodes \cup DOMAIN df |->
                       IF n \in DOMAIN df THEN nodes_dict[n]
                       ELSE integrated_network.nodes[n]],
         edges |-> integrated_network.edges]

\* faulty variant: the graph is written without the topology filter
produce_integrated_graphml_Unfiltered(df, edgelist) ==
    IntegratedNetwork(df, edgelist)

\* the graph nx.write_graphml receives
produce_integrated_graphml(df, edgelist) ==
    filter_component(IntegratedNetwork(df, edgelist), ComponentLimit)

\* most components a generated graph has
MaxComponents == 2

\* sizes of the generated components, around the limit
ComponentSizes == {1, 50, 100, 101, 150}

\* raw cells of the table and of the edge list
NodeRaw == {"s:X", "s:", "NaN", "null", "i:1"}

EdgeRaw == {"s:X", "NaN", "i:1"}

RECURSIVE SizeSum(_, _)
\* sizes[1] + ... + sizes[i]
SizeSum(sizes, i) == IF i = 0 THEN 0 ELSE sizes[i] + SizeSum(sizes, i - 1)

\* the first node of the component that holds node j
FirstOf(sizes, j) ==
    1 + SizeSum(sizes, (CHOOSE i \in 1..Len(sizes) :
                           SizeSum(sizes, i - 1) < j /\ j <= SizeSum(sizes, i))
                       - 1)

\* a graph of tree-shaped components of the given sizes: node numbers run
\* through the components one after the other, and every node but the first
\* of its component has an edge to the node half way back to the first
TreeEdges(sizes, ev) ==
    {[source |-> FirstOf(sizes, j) + ((j - FirstOf(sizes, j) - 1) \div 2),
      target |-> j, attrs |-> ("cosine_score" :> ev)]
        : j \in {k \in 1..SizeSum(sizes, Len(sizes)) : k # FirstOf(sizes, k)}}

InitGraph ==
    /\ pc = "graph"
    /\ Fresh
    /\ input = EmptyDocument
    /\ config = <<>>
    /\ \E len \in 1..MaxComponents :
         \E sizes \in [1..len -> ComponentSizes], nv \in NodeRaw,
            ev \in EdgeRaw, rowless \in {0, 1} :
            \* the table has a row for every node, or for all but the last
            call = [fn |-> "none",
                    network_df |-> [n \in 1..(SizeSum(sizes, len) - rowless) |->
                                       (integration_col :> nv)],
                    network_edgelist |-> TreeEdges(sizes, ev)]

CallProduceGraphml ==
    /\ pc = "graph"
    /\ call.fn = "none"
    /\ call' = [fn |-> "produce_integrated_graphml",
                network_df |-> call.network_df,
                network_edgelist |-> call.network_edgelist,
                integrated_network |-> IntegratedNetwork(call.network_df,
                                                         call.network_edgelist),
                written |-> produce_integrated_graphml(call.network_df,
                                                       call.network_edgelist)]
    /\ UNCHANGED <<settingsVars, runVars, error, pc>>

NextGraph == CallProduceGraphml

SpecGraph == InitGraph /\ [][NextGraph]_vars

\* the components of the graph before the filter
ComponentsBefore ==
    connected_components(
        DOMAIN call.network_df
            \cup {e.source : e \in call.network_edgelist}
            \cup {e.target : e \in call.network_edgelist},
        call.network_edgelist)

\* C13: in the written graph no connected component has more than 100
\* nodes, and every component of at most 100 nodes of the graph before the
\* filter is there with all its nodes and edges.
C13_TopologyFilter ==
    call.fn = "produce_integrated_graphml" =>
        /\ \A c \in connected_components(DOMAIN call.written.nodes,
                                          call.written.edges) :
             Cardinality(c) <= 100
        /\ \A c \in ComponentsBefore :
             Cardinality(c) <= 100 =>
                 /\ c \subseteq DOMAIN call.written.nodes
                 /\ \A e \in call.network_edgelist :
                      e.source \in c => e \in call.written.edges

\* a graph with a component of 150 nodes, removed, and one of 50, kept
C13_Witness ==
    /\ call.fn = "produce_integrated_graphml"
    /\ {Cardinality(c) : c \in ComponentsBefore} = {50, 150}
    /\ Cardinality(DOMAIN call.written.nodes) = 50

\* a text value that is not a raw empty or null marker ("", "nan", "None")
NormalText(v) == v \in {"s:X", "s:1", "s:N/A"}

\* C14: in the written graph every node attribute and every edge attribute
\* is a text value and none is a raw empty or null marker: a missing value
\* is "N/A".
C14_TextAttributes ==
    call.fn = "produce_integrated_graphml" =>
        /\ \A n \in DOMAIN call.written.nodes :
             \A a \in DOMAIN call.written.nodes[n] :
                 NormalText(call.written.nodes[n][a])
        /\ \A e \in call.written.edges :
             \A a \in DOMAIN e.attrs : NormalText(e.attrs[a])

-----------------------------------------------------------------------------
(* The run as a whole (specification Spec) *)

\* the operation (op, tool) has returned
Ended(op, tool) == \E i \in DOMAIN log : log[i] = Event(op, tool, "end")

\* every tool with a depth of the list [1,2,3,4,"N/A"] has been dispatched
\* and has returned
AllBucketsProcessed ==
    /\ \A tool \in DOMAIN running_depths :
         running_depths[tool] \in Range(DepthOrder) => Ended("run", tool)
    /\ \A tool \in DOMAIN integration_depths :
         integration_depths[tool] \in Range(DepthOrder)
             => Ended("integrate", tool)

\* C15: the output artifact is written at most once, and when it is written
\* all five buckets have been processed, the class consensus columns have
\* been computed and the topology filter has been applied once; a run that
\* ends without a failing operation has written it exactly once.
C15_WrittenOnceAtEnd ==
    /\ written <= 1
    /\ written = 1 =>
         /\ pc = "done"
         /\ error = NoError
         /\ bucket = 5
         /\ AllBucketsProcessed
         /\ steps.get_consensus_class = 1
         /\ {"subclass", "class", "superclass"} \subseteq network_df.attrs
         /\ steps.filter_component = 1
    /\ pc = "done" => written = 1

\* a completed run with an operation in the "N/A" bucket
C15_Witness ==
    /\ written = 1
    /\ \E i \in DOMAIN log : log[i].ev = "end" /\ EventBucket(log[i]) = 5

\* C16: there is no retry and no recovery: once a step of the run has
\* failed, no operation is dispatched or completed any more, the error
\* stays, and the output artifact is never written.
C16_NoRecovery ==
    /\ [](error # NoError => written = 0)
    /\ [][error # NoError =>
            /\ error' = error
            /\ log' = log
            /\ written' = written
            /\ graph' = graph
            /\ network_df' = network_df]_vars

\* a run that failed after a dispatch, with operations still due
C16_Witness ==
    /\ pc = "failed"
    /\ error # NoError
    /\ log # <<>>
    /\ \E tool \in DOMAIN integration_depths :
         integration_depths[tool] \in Range(DepthOrder)
             /\ ~Ended("integrate", tool)

\* C18: the graph is read exactly once, before any operation of bucket 3,
\* and the projection is derived, with its consensus join key and formula,
\* exactly once, before any operation of bucket 4, whether or not a tool is
\* due in those buckets.
C18_SpecialTransitions ==
    /\ steps.read_graphml <= 1
    /\ steps.network_to_edgelist_and_nodes_df <= 1
    /\ \A i \in DOMAIN log :
         /\ EventBucket(log[i]) >= 3 =>
                steps.read_graphml = 1 /\ graph.init
         /\ EventBucket(log[i]) >= 4 =>
                /\ steps.network_to_edgelist_and_nodes_df = 1
                /\ network_df.init
                /\ {"smiles", "Molecular formula"} \subseteq network_df.attrs
    /\ (pc = "dispatch" /\ bucket >= 3) => steps.read_graphml = 1
    /\ (pc = "dispatch" /\ bucket >= 4) =>
            steps.network_to_edgelist_and_nodes_df = 1
    /\ pc \in {"after_loop", "produce", "done"} =>
            /\ steps.read_graphml = 1
            /\ steps.network_to_edgelist_and_nodes_df = 1

\* a completed run in which no operation was due in bucket 3 or 4
C18_Witness ==
    /\ pc = "done"
    /\ log # <<>>
    /\ \A i \in DOMAIN log : EventBucket(log[i]) \notin {3, 4}
    /\ steps.read_graphml = 1
    /\ steps.network_to_edgelist_and_nodes_df = 1

\* C19: node attributes accumulate: in a completed run every attribute an
\* integrate operation attached, to the graph or to the projection, is an
\* attribute of the written graph (whose node attributes are the columns of
\* network_df).
C19_AttributesAccumulate ==
    pc = "done" =>
        \A i \in DOMAIN log :
            (/\ log[i].op = "integrate"
             /\ log[i].ev = "end"
             /\ log[i].tool \in graph.attrs \cup network_df.attrs)
            => log[i].tool \in network_df.attrs

-----------------------------------------------------------------------------
(* run_tool and integrate_tool called with any identifier (specification    *)
(* SpecDispatch): one call on a runner whose graph and projection are in    *)
(* any of the conditions a run passes through.                              *)

\* the identifiers of both catalogs and one that is in neither
DispatchIds == Range(available_integrations) \cup {"foo"}

\* conditions of self.graph and self.network_df during a run
GraphConditions == {Unset, [init |-> TRUE, attrs |-> {}],
                    [init |-> TRUE, attrs |-> {"sirius"}]}

DfConditions == {Unset,
                 [init |-> TRUE, attrs |-> {"smiles", "Molecular formula"}]}

InitDispatch ==
    /\ pc = "dispatch"
    /\ input = EmptyDocument
    /\ config = <<>>
    /\ to_run = <<>>
    /\ to_integrate = <<>>
    /\ schema_loaded = TRUE
    /\ folder_made = TRUE
    /\ error = NoError
    /\ running_depths = <<>>
    /\ integration_depths = <<>>
    /\ bucket = 0
    /\ active = NoOp
    /\ log = <<>>
    /\ written = 0
    /\ steps = NoSteps
    /\ call = [fn |-> "none"]
    /\ paths \in {input.paths, input.paths \cup {"base_network"}}
    /\ graph \in GraphConditions
    /\ network_df \in DfConditions
    /\ \E tool \in DispatchIds :
         \/ running = {tool} /\ integrating = {}
         \/ running = {} /\ integrating = {tool}

NextDispatch == RunBegin \/ RunEnd \/ IntegrateBegin \/ IntegrateEnd

SpecDispatch == InitDispatch /\ [][NextDispatch]_vars

\* the operation has no case for the identifier
NoVariant(op, tool) ==
    \/ op = "run"
        /\ tool \notin {"classyfire", "matchms", "ms2lda", "mzmine", "sirius",
                        "toxtree"}
    \/ op = "integrate"
        /\ tool \notin {"classyfire", "ms2lda", "mzmine", "sirius", "sirius_db",
                        "toxtree", "plastchemdb"}

\* C17: run_tool and integrate_tool called with an identifier they have no
\* case for (one outside the catalog, or matchms for integration) raise no
\* error and leave the graph, the projection, the paths and the settings as
\* they were.
C17_SilentDispatch ==
    [][(\/ /\ Len(log') > Len(log)
           /\ NoVariant(log'[Len(log')].op, log'[Len(log')].tool)
        \/ /\ active.op # "none"
           /\ NoVariant(active.op, active.tool))
       => /\ error' = NoError
          /\ pc' = "dispatch"
          /\ graph' = graph
          /\ network_df' = network_df
          /\ paths' = paths
          /\ input' = input
          /\ config' = config]_vars

\* integrate_tool("matchms") and run_tool("foo") have returned on a runner
\* that holds a graph with attributes
C17_Witness ==
    /\ graph.attrs # {}
    /\ network_df.init
    /\ \/ log = <<Event("integrate", "matchms", "begin"),
                  Event("integrate", "matchms", "end")>>
       \/ log = <<Event("run", "foo", "begin"), Event("run", "foo", "end")>>

-----------------------------------------------------------------------------
(* The two dispatch loops of one bucket run in a given order (specification *)
(* SpecOrder).  st is [graph, network_df, error]; fails holds the           *)
(* operations <<op, tool>> whose external collaborator fails.               *)

\* self.run_tool(tool) from state st
RunOne(st, tool, fails) ==
    IF st.error # NoError THEN st
    ELSE IF run_tool_raises(tool, st.network_df) # NoError
    THEN [st EXCEPT !.error = run_tool_raises(tool, st.network_df)]
    ELSE IF tool \in RunVariants /\ <<"run", tool>> \in fails
    THEN [st EXCEPT !.error = Raise("ExternalToolError", tool, {}, "run_tool")]
    ELSE st

\* self.integrate_tool(tool) from state st
IntegrateOne(st, tool, fails) ==
    IF st.error # NoError THEN st
    ELSE IF integrate_tool_raises(tool, st.graph, st.network_df) # NoError
    THEN [st EXCEPT
            !.error = integrate_tool_raises(tool, st.graph, st.network_df)]
    ELSE IF tool \in IntegrateVariants /\ <<"integrate", tool>> \in fails
    THEN [st EXCEPT
            !.error = Raise("ExternalToolError", tool, {}, "integrate_tool")]
    ELSE [st EXCEPT !.graph = integrate_tool_graph(tool, st.graph),
                    !.network_df = integrate_tool_df(tool, st.network_df)]

RECURSIVE RunLoop(_, _, _)
\* for tool in running: self.run_tool(tool), in the order of the sequence
RunLoop(st, order, fails) ==
    IF order = <<>> THEN st
    ELSE RunLoop(RunOne(st, Head(order), fails), Tail(order), fails)

RECURSIVE IntegrateLoop(_, _, _)
\* for integration in integrating: self.integrate_tool(integration)
IntegrateLoop(st, order, fails) ==
    IF order = <<>> THEN st
    ELSE IntegrateLoop(IntegrateOne(st, Head(order), fails), Tail(order), fails)

\* the iteration orders a set can have
Orders(S) ==
    {f \in [1..Cardinality(S) -> S] :
        \A i, j \in 1..Cardinality(S) : f[i] = f[j] => i = j}

\* the tools due in the bucket
OrderRunTools == {"matchms", "classyfire"}

OrderIntegrateTools == {"sirius", "classyfire", "toxtree"}

InitOrder ==
    /\ pc = "order"
    /\ input = EmptyDocument
    /\ config = <<>>
    /\ to_run = <<>>
    /\ to_integrate = <<>>
    /\ schema_loaded = TRUE
    /\ folder_made = TRUE
    /\ error = NoError
    /\ running_depths = <<>>
    /\ integration_depths = <<>>
    /\ bucket = 0
    /\ active = NoOp
    /\ log = <<>>
    /\ written = 0
    /\ steps = NoSteps
    /\ paths = input.paths
    /\ graph \in GraphConditions
    /\ network_df \in DfConditions
    /\ network_df.init => graph.init
    /\ running \in SUBSET OrderRunTools
    /\ integrating \in SUBSET OrderIntegrateTools
    /\ \E fails \in SUBSET (({"run"} \X running)
                              \cup ({"integrate"} \X integrating)) :
         call = [fn |-> "none", fails |-> fails]

\* the bucket is run twice from the same state, in two iteration orders
CallBucketOrders ==
    /\ pc = "order"
    /\ call.fn = "none"
    /\ \E r1 \in Orders(running), r2 \in Orders(running),
          i1 \in Orders(integrating), i2 \in Orders(integrating) :
         LET st == [graph |-> graph, network_df |-> network_df,
                    error |-> NoError]
         IN  call' = [fn |-> "bucket", fails |-> call.fails,
                      orders |-> <<r1, i1, r2, i2>>,
                      first |-> IntegrateLoop(RunLoop(st, r1, call.fails),
                                              i1, call.fails),
                      second |-> IntegrateLoop(RunLoop(st, r2, call.fails),
                                               i2, call.fails)]
    /\ UNCHANGED <<settingsVars, runVars, error, pc>>

NextOrder == CallBucketOrders

SpecOrder == InitOrder /\ [][NextOrder]_vars

\* the bucket ended with an exception
Failed(st) == st.error # NoError

-----------------------------------------------------------------------------
(* Runs of a constructed runner over more tools and depth values            *)
(* (specification SpecRun): the documents select among four operations,     *)
(* the schema gives each any depth, also one get_depths has no case for,    *)
(* and the toxtree module is or is not in the schema's module table.        *)

RunOps == {<<"matchms", "running">>, <<"toxtree", "running">>,
           <<"toxtree", "integration">>, <<"sirius", "integration">>}

RunTools == {"matchms", "toxtree", "sirius"}

\* depth values of the schema: buckets 1 and 4, none, and 5
RunDepthVals == {"i:1", "i:4", "absent", "i:5"}

\* the toxtree module of the document; the schema translates "cramer" only
RunModules == {"s:cramer", "s:other", "absent"}

RunDocument(selected, module) ==
    [keys |-> required_settings,
     paths |-> required_paths \cup {"base_network"},
     flags_kind |-> "object",
     run_tools |-> [t \in RunTools |-> FlagOf(selected, t, "running")],
     integrate_tools |-> [t \in RunTools |-> FlagOf(selected, t, "integration")],
     blocks |-> <<>>,
     toxtree_module |-> module]

RunSchema(depth) ==
    [t \in RunTools |->
        [depth |-> "absent",
         running |-> [depth |-> IF <<t, "running">> \in DOMAIN depth
                                THEN depth[<<t, "running">>] ELSE "absent",
                      requirements |-> NoReq,
                      modules |-> IF t = "toxtree" THEN {"s:cramer"} ELSE {}],
         integration |-> [depth |-> IF <<t, "integration">> \in DOMAIN depth
                                    THEN depth[<<t, "integration">>] ELSE "absent",
                          requirements |-> NoReq]]]

\* the runner WorkflowRunner(document) returns
InitRun ==
    /\ pc = "constructed"
    /\ call = [fn |-> "none"]
    /\ \E selected \in SUBSET RunOps, module \in RunModules :
        \E depth \in [selected -> RunDepthVals] :
          /\ input = RunDocument(selected, module)
          /\ config = RunSchema(depth)
    /\ LET r == WorkflowSettings_init(input)
       IN  /\ error = r.error
           /\ schema_loaded = r.schema_loaded
           /\ folder_made = r.folder_made
           /\ to_run = r.to_run
           /\ to_integrate = r.to_integrate
           /\ paths = r.paths
    /\ running_depths = <<>>
    /\ integration_depths = <<>>
    /\ bucket = 0
    /\ running = {}
    /\ integrating = {}
    /\ active = NoOp
    /\ log = <<>>
    /\ graph = Unset
    /\ network_df = Unset
    /\ written = 0
    /\ steps = NoSteps

NextRun == \/ run_all
           \/ BeginBucket
           \/ RunBegin
           \/ RunEnd
           \/ IntegrateBegin
           \/ IntegrateEnd
           \/ EndBucket
           \/ ConsensusClass
           \/ Finalize

SpecRun == InitRun /\ [][NextRun]_vars

\* every operation whose resolved bucket is before bucket b has returned
EarlierBucketsDone(b) ==
    /\ \A tool \in DOMAIN running_depths :
         BucketIndex(running_depths[tool]) < b => Ended("run", tool)
    /\ \A tool \in DOMAIN integration_depths :
         BucketIndex(integration_depths[tool]) < b => Ended("integrate", tool)

\* C21: running toxtree with a module that is no key of the schema's module
\* table raises a Settingserror at dispatch: no smiles file is written, the
\* toxtree collaborator is never invoked, the operations of earlier buckets
\* have executed and no operation follows.
C21_ToxtreeModule ==
    ToxtreeModule \notin ToxtreeModules =>
        /\ active # [op |-> "run", tool |-> "toxtree"]
        /\ steps.create_smiles_csv_from_df = 0
        /\ \A i \in DOMAIN log :
             log[i] = Event("run", "toxtree", "begin") =>
                /\ i = Len(log)
                /\ pc = "failed"
                /\ error.exc = "Settingserror"
                /\ error.tool = "toxtree"
                /\ EarlierBucketsDone(BucketIndex(running_depths["toxtree"]))

\* toxtree fails on its module in bucket 4, after matchms ran in bucket 1
\* and with the sirius integration still due
C21_Witness ==
    /\ pc = "failed"
    /\ error.exc = "Settingserror"
    /\ error.at = "toxtree_module"
    /\ network_df.init
    /\ Ended("run", "matchms")
    /\ "sirius" \in DOMAIN integration_depths
    /\ ~Ended("integrate", "sirius")

-----------------------------------------------------------------------------
(* Selection by flag (specification SpecSelect): documents whose flag       *)
(* sections name a tool of both catalogs, one of the integration catalog    *)
(* only and one of neither, with any flag value; the schema may declare a   *)
(* running requirement no document meets.                                   *)

SelectTools == {"sirius", "plastchemdb", "foo"}

\* flag values: no flag, "True", "False" and the boolean true
FlagVals == {"absent", "s:True", "s:False", "b:true"}

SelectSchema(unmet) ==
    [t \in SelectTools |->
        [depth |-> "absent",
         running |-> [depth |-> "absent",
                      requirements |-> IF unmet
                                       THEN Req({"plastchem_path"}, {}, <<>>, <<>>)
                                       ELSE NoReq],
         integration |-> EmptyGoal]]

InitSelect ==
    /\ pc = "new"
    /\ call = [fn |-> "none"]
    /\ Fresh
    /\ \E run \in [SelectTools -> FlagVals],
          integrate \in [SelectTools -> FlagVals], unmet \in BOOLEAN :
         /\ input = [keys |-> required_settings,
                     paths |-> required_paths \cup {"base_network"},
                     flags_kind |-> "object",
                     run_tools |-> run,
                     integrate_tools |-> integrate,
                     blocks |-> <<>>]
         /\ config = SelectSchema(unmet)

SpecSelect == InitSelect /\ [][Next]_vars

\* C22: a tool is in the run-set iff it is in available_tools and its
\* run_tools flag is exactly "True", and in the integrate-set iff it is in
\* available_integrations and its integrate_tools flag is exactly "True";
\* any other identifier or flag value is never selected, never validated
\* and never dispatched.
C22_SelectionByFlag ==
    pc # "new" =>
        /\ Range(to_run) = SelectedFor(available_tools, input.run_tools)
        /\ Range(to_integrate) =
               SelectedFor(available_integrations, input.integrate_tools)
        /\ error.exc = "Settingserror" =>
               \/ error.tool = "all_tools"
               \/ Unmet(error.tool, "running")
                     /\ error.tool \in SelectedFor(available_tools, input.run_tools)
               \/ Unmet(error.tool, "integration")
                     /\ error.tool \in SelectedFor(available_integrations,
                                                    input.integrate_tools)
        /\ \A i \in DOMAIN log :
             /\ log[i].op = "run" =>
                   log[i].tool \in SelectedFor(available_tools, input.run_tools)
             /\ log[i].op = "integrate" =>
                   log[i].tool \in SelectedFor(available_integrations,
                                               input.integrate_tools)

\* a completed run of a document that flags sirius for running with the
\* boolean true, though its running requirement is unmet, plastchemdb for
\* running with "True", and foo and sirius for integration with "True"
C22_Witness ==
    /\ pc = "done"
    /\ input.run_tools["sirius"] = "b:true"
    /\ input.run_tools["plastchemdb"] = "s:True"
    /\ input.integrate_tools["foo"] = "s:True"
    /\ input.integrate_tools["plastchemdb"] = "s:False"
    /\ Unmet("sirius", "running")
    /\ log = <<Event("integrate", "sirius", "begin"),
               Event("integrate", "sirius", "end")>>

-----------------------------------------------------------------------------
(* Requirements against the resolved paths (specification Spec) *)

\* a required path of (tool, goal) is missing from the given paths
PathsUnmet(tool, goal, pathset) ==
    ~(get_tool_requirements(tool, goal).paths \subseteq pathset)

\* the (tool, goal) pairs whose requirements a load checks
CheckedPairs ==
    (SelectedFor(available_tools, input.run_tools) \X {"running"})
    \cup (SelectedFor(available_integrations, input.integrate_tools)
             \X {"integration"})
    \cup ({"all_tools"} \X {"running", "integration"})

\* C23: required and optional paths are checked against the resolved paths
\* map, the user's paths plus the paths every selected tool registers: after
\* selection the runner's paths map is the resolved one, a path requirement
\* is reported only when a key it names is missing from the resolved map,
\* and required paths that are all in the resolved map, be it only because a
\* selected tool registers them, do not fail the load.
C23_ResolvedPaths ==
    ( /\ pc \in {"constructed", "failed_load"}
      /\ ~MissingTopLevel
      /\ input.flags_kind = "object" ) =>
        /\ paths = ResolvedPaths
        /\ error.at \in {"paths", "optional_paths"} =>
               ~(error.names \subseteq ResolvedPaths)
        /\ (\A c \in CheckedPairs : ~PathsUnmet(c[1], c[2], ResolvedPaths))
               => error.at # "paths"

\* a constructed runner whose sirius run requires a path the document does
\* not have and sirius registers
C23_Witness ==
    /\ pc = "constructed"
    /\ "sirius" \in SelectedFor(available_tools, input.run_tools)
    /\ PathsUnmet("sirius", "running", input.paths)
    /\ ~PathsUnmet("sirius", "running", paths)

-----------------------------------------------------------------------------
(* The graph before the topology filter (specification SpecGraph) *)

\* the end points of the edge list
EndPoints ==
    {e.source : e \in call.network_edgelist}
        \cup {e.target : e \in call.network_edgelist}

\* the text a raw cell is written as
TextOf(v) ==
    CASE v = "i:1" -> "s:1"
      [] v \in {"NaN", "null", "s:"} -> "s:N/A"
      [] OTHER -> v

-----------------------------------------------------------------------------
(* Every selected tool is dispatched once (specification SpecRun) *)

\* how many times the operation on the tool was dispatched
Dispatches(op, tool) ==
    Cardinality({i \in DOMAIN log : log[i] = Event(op, tool, "begin")})

\* C25: in a run in which no operation fails, every tool of the run-set is
\* run-dispatched exactly once and every tool of the integrate-set is
\* integrate-dispatched exactly once, whatever depths the schema declares.
C25_DispatchedOnce ==
    (pc = "done" /\ error = NoError) =>
        /\ \A t \in Range(to_run) : Dispatches("run", t) = 1
        /\ \A t \in Range(to_integrate) : Dispatches("integrate", t) = 1

-----------------------------------------------------------------------------
(* A tool's integration after its own run (specification Spec) *)

\* C26: for every tool selected both for running and for integration, the
\* integrate-dispatch never begins before the tool's own run-dispatch has
\* completed, for any running and integration depths of the schema.
C26_IntegrateAfterOwnRun ==
    \A i \in DOMAIN log :
        ( /\ log[i].op = "integrate"
          /\ log[i].ev = "begin"
          /\ log[i].tool \in Range(to_run) \cap Range(to_integrate) )
            => EndedBefore("run", log[i].tool, i)

\* no operation is dispatched twice
NoDoubleDispatch ==
    \A t \in Range(available_integrations) :
        Dispatches("run", t) <= 1 /\ Dispatches("integrate", t) <= 1

-----------------------------------------------------------------------------
(* Shared state is made before it is read (specification Spec) *)

\* C27: an operation that reads the graph is dispatched only in bucket 3 or
\* later, after the graph is read in, and an operation that reads the table
\* or the join key only in bucket 4 or later, after the table is derived,
\* for every depth the scheduler accepts.
C27_InitialisedBeforeRead ==
    \A i \in DOMAIN log :
        log[i].ev = "begin" =>
            /\ (log[i].op = "integrate" /\ log[i].tool \in GraphIntegrations)
                    => EventBucket(log[i]) >= 3
            /\ ( \/ log[i].op = "integrate" /\ log[i].tool \in DfIntegrations
                 \/ log[i].op = "run" /\ log[i].tool \in RunReadsDf )
                    => EventBucket(log[i]) >= 4
=============================================================================
